---- MODULE Spec2Model ----
(***************************************************************************)
(* A model of the stimpl tree-walking evaluator (src/stimpl/runtime.py):   *)
(* the State chain of frames, evaluate() over the AST variants, and the    *)
(* run_stimpl driver threading one State through a Program's expressions.  *)
(***************************************************************************)
EXTENDS Integers, Sequences, FiniteSets, TLC

(***************************************************************************)
(* Bounds of the model.                                                    *)
(***************************************************************************)
\* Number of top-level expressions of the Program that run_stimpl evaluates.
MaxSteps == 2
\* Largest loop bound N of the counting loops while (i < N) { i = i + 1 }.
MaxN == 3
\* Slack of loop iterations beyond MaxN before a loop is cut off as running
\* forever (the cut-off is reported as the pseudo-error "Nontermination").
IterSlack == 2

MaxIter == MaxN + IterSlack

(***************************************************************************)
(* Python runtime values.  A value is a record [kind, n, d, s]:            *)
(*   int    n                      (d = 1)                                 *)
(*   float  n / d  in lowest terms, d > 0                                  *)
(*   str    s, a sequence of character codes                               *)
(*   bool   n = 1 for True, n = 0 for False                                *)
(*   tuple  the empty tuple ()                                             *)
(*   none   None                                                           *)
(* The kind is the runtime class of the Python object; it is independent   *)
(* of the stimpl type tag that evaluate returns beside the value.  Floats  *)
(* are exact rationals (the rounding of binary floating point is left      *)
(* out), and ints are unbounded, as Python's are.                          *)
(***************************************************************************)
PyInt(n) == [kind |-> "int", n |-> n, d |-> 1, s |-> <<>>]

Abs(a) == IF a < 0 THEN -a ELSE a

RECURSIVE Gcd(_, _)
Gcd(a, b) == IF b = 0 THEN a ELSE Gcd(b, a % b)

\* Floor of a / b for any b # 0, the rounding of Python's // on ints.
FloorDiv(a, b) == IF b > 0 THEN a \div b ELSE (-a) \div (-b)

PyFloat(n, d) ==
    LET g == Gcd(Abs(n), Abs(d))
        sg == IF d < 0 THEN -1 ELSE 1
    IN [kind |-> "float", n |-> (sg * n) \div g, d |-> (sg * d) \div g, s |-> <<>>]

PyStr(s) == [kind |-> "str", n |-> 0, d |-> 1, s |-> s]

PyBool(b) == [kind |-> "bool", n |-> (IF b THEN 1 ELSE 0), d |-> 1, s |-> <<>>]

PyTrue == PyBool(TRUE)

PyFalse == PyBool(FALSE)

PyEmptyTuple == [kind |-> "tuple", n |-> 0, d |-> 1, s |-> <<>>]

PyNone == [kind |-> "none", n |-> 0, d |-> 1, s |-> <<>>]

IsNumber(v) == v.kind \in {"int", "float", "bool"}

\* bool(v): the truth value Python's if, while, and, or, not take of v.
PyTruthy(v) ==
    CASE v.kind \in {"int", "float", "bool"} -> v.n # 0
      [] v.kind = "str" -> Len(v.s) > 0
      [] OTHER -> FALSE

\* a == b.  Numbers (int, float, bool) compare by value across kinds; every
\* other pair of different kinds is unequal (so () == None is False).
PyEq(a, b) ==
    IF IsNumber(a) /\ IsNumber(b)
    THEN a.n * b.d = b.n * a.d
    ELSE a.kind = b.kind /\ a.s = b.s

RECURSIVE SeqLt(_, _)
SeqLt(s, t) ==
    IF Len(t) = 0 THEN FALSE
    ELSE IF Len(s) = 0 THEN TRUE
    ELSE IF Head(s) # Head(t) THEN Head(s) < Head(t)
    ELSE SeqLt(Tail(s), Tail(t))

\* a < b on two numbers or on two strings (lexicographic).
PyLt(a, b) ==
    IF a.kind = "str" THEN SeqLt(a.s, b.s) ELSE a.n * b.d < b.n * a.d

\* The class of the result of an arithmetic operator on two numbers.
NumKind(a, b) == IF "float" \in {a.kind, b.kind} THEN "float" ELSE "int"

PyNum(kind, n, d) == IF kind = "float" THEN PyFloat(n, d) ELSE PyInt(n \div d)

\* a + b: numeric addition, or concatenation of two strings.
PyAdd(a, b) ==
    IF a.kind = "str" THEN PyStr(a.s \o b.s)
    ELSE PyNum(NumKind(a, b), a.n * b.d + b.n * a.d, a.d * b.d)

PySub(a, b) == PyNum(NumKind(a, b), a.n * b.d - b.n * a.d, a.d * b.d)

PyMul(a, b) == PyNum(NumKind(a, b), a.n * b.n, a.d * b.d)

\* a // b (b # 0): the floor of the quotient; an int when both are ints.
PyFloorDiv(a, b) ==
    LET q == FloorDiv(a.n * b.d, a.d * b.n)
    IN IF NumKind(a, b) = "float" THEN PyFloat(q, 1) ELSE PyInt(q)

\* a / b (b # 0): true division, always a float.
PyTrueDiv(a, b) == PyFloat(a.n * b.d, a.d * b.n)

(***************************************************************************)
(* Type tags (stimpl.types).  Two tags of the same kind are equal.         *)
(***************************************************************************)
Integer == "Integer"

FloatingPoint == "FloatingPoint"

String == "String"

Boolean == "Boolean"

Unit == "Unit"

\* Python's None in the place of a type tag, of a variable name, of a frame.
NoneTag == "None"

NoneName == "None"

NoneRef == 0

(***************************************************************************)
(* AST nodes (stimpl.expression): records carrying their fixed children.   *)
(***************************************************************************)
Ren == [op |-> "Ren"]

IntLiteral(n) == [op |-> "IntLiteral", literal |-> PyInt(n)]

FloatingPointLiteral(n, d) == [op |-> "FloatingPointLiteral", literal |-> PyFloat(n, d)]

StringLiteral(s) == [op |-> "StringLiteral", literal |-> PyStr(s)]

BooleanLiteral(b) == [op |-> "BooleanLiteral", literal |-> PyBool(b)]

Print_(e) == [op |-> "Print", to_print |-> e]

Sequence(es) == [op |-> "Sequence", exprs |-> es]

Program(es) == [op |-> "Program", exprs |-> es]

Variable(name) == [op |-> "Variable", variable_name |-> name]

Assign(var, e) == [op |-> "Assign", variable |-> var, value |-> e]

Binary(o, l, r) == [op |-> o, left |-> l, right |-> r]

Add(l, r) == Binary("Add", l, r)

Subtract(l, r) == Binary("Subtract", l, r)

Multiply(l, r) == Binary("Multiply", l, r)

Divide(l, r) == Binary("Divide", l, r)

And(l, r) == Binary("And", l, r)

Or(l, r) == Binary("Or", l, r)

Not(e) == [op |-> "Not", expr |-> e]

Lt(l, r) == Binary("Lt", l, r)

Lte(l, r) == Binary("Lte", l, r)

Gt(l, r) == Binary("Gt", l, r)

Gte(l, r) == Binary("Gte", l, r)

Eq(l, r) == Binary("Eq", l, r)

Ne(l, r) == Binary("Ne", l, r)

If(c, t, f) == [op |-> "If", condition |-> c, true |-> t, false |-> f]

While(c, b) == [op |-> "While", condition |-> c, body |-> b]

BinaryOps ==
    {"Add", "Subtract", "Multiply", "Divide", "And", "Or",
     "Lt", "Lte", "Gt", "Gte", "Eq", "Ne"}

(***************************************************************************)
(* Interpreter State.  The Python heap of State objects is a sequence of   *)
(* frames; a reference to a State is its index, NoneRef is None.  A frame  *)
(* holds the fields __init__ sets and the class that picks get_value.      *)
(***************************************************************************)
StateObject(cls, variable_name, variable_value, variable_type, next_state) ==
    [cls |-> cls,
     variable_name |-> variable_name,
     value |-> <<variable_value, variable_type>>,
     next_state |-> next_state]

\* EmptyState(): super().__init__(None, None, None, None).
EmptyState == StateObject("EmptyState", NoneName, PyNone, NoneTag, NoneRef)

\* set_value that overwrites self when self binds the same name already.
set_value_InPlace(heap, self, variable_name, variable_value, variable_type) ==
    IF heap[self].variable_name = variable_name
    THEN Append([heap EXCEPT ![self].value = <<variable_value, variable_type>>],
                StateObject("State", variable_name, variable_value, variable_type,
                            heap[self].next_state))
    ELSE Append(heap, StateObject("State", variable_name, variable_value, variable_type, self))

\* The heap after self.set_value(...): one new State whose next_state is self.
\* The new object's reference is the length of the returned heap.
set_value(heap, self, variable_name, variable_value, variable_type) ==
    Append(heap, StateObject("State", variable_name, variable_value, variable_type, self))

\* The loop of State.get_value; <<>> stands for the None it returns.
RECURSIVE get_value_loop(_, _, _)
get_value_loop(heap, state, variable_name) ==
    IF state = NoneRef THEN <<>>
    ELSE IF heap[state].variable_name = variable_name THEN heap[state].value
    ELSE get_value_loop(heap, heap[state].next_state, variable_name)

\* The loop of get_value without its return at the first match: the oldest
\* binding of the name wins.
RECURSIVE get_value_Oldest(_, _, _)
get_value_Oldest(heap, self, variable_name) ==
    IF self = NoneRef THEN <<>>
    ELSE LET older == get_value_Oldest(heap, heap[self].next_state, variable_name)
         IN IF older # <<>> THEN older
            ELSE IF heap[self].variable_name = variable_name THEN heap[self].value
            ELSE <<>>

\* self.get_value(variable_name), dispatched on the class of self.
get_value(heap, self, variable_name) ==
    IF heap[self].cls = "EmptyState" THEN <<>>
    ELSE get_value_loop(heap, self, variable_name)

(***************************************************************************)
(* Results of evaluate.  The world w = [heap, out, fuel] is what a call    *)
(* can change besides its return value: the heap of State objects, the     *)
(* lines printed so far, and the loop iterations left before the model     *)
(* cuts a loop off.  A call either returns (value, typ, state) or raises.  *)
(***************************************************************************)
NoError == [class |-> "None", message |-> <<>>]

Return(value, typ, state, w) ==
    [value |-> value, typ |-> typ, state |-> state, w |-> w, raised |-> NoError]

Raise(class, message, w) ==
    [value |-> PyNone, typ |-> NoneTag, state |-> NoneRef, w |-> w,
     raised |-> [class |-> class, message |-> message]]

Raised(r) == r.raised.class # "None"

InterpTypeError(message, w) == Raise("InterpTypeError", message, w)

InterpSyntaxError(message, w) == Raise("InterpSyntaxError", message, w)

InterpMathError(message, w) == Raise("InterpMathError", message, w)

\* The model's cut-off of a loop that used up its iterations; no Python error.
Nontermination(w) == Raise("Nontermination", <<>>, w)

\* The text "Unit" that print writes for a Unit-typed value.
UnitText == PyStr(<<85, 110, 105, 116>>)

(***************************************************************************)
(* The cases of evaluate, each applied to the results of the evaluations   *)
(* of its children (l: left or only child, r: right child).                *)
(***************************************************************************)
RenCase(state, w) == Return(PyEmptyTuple, Unit, state, w)

LiteralCase(expression, state, w) ==
    Return(expression.literal,
           CASE expression.op = "IntLiteral" -> Integer
             [] expression.op = "FloatingPointLiteral" -> FloatingPoint
             [] expression.op = "StringLiteral" -> String
             [] expression.op = "BooleanLiteral" -> Boolean,
           state, w)

\* print(value if not isinstance(typ, Unit) else "Unit"): the printed object
\* is appended to the output as one line.
PrintCase(l) ==
    Return(l.value, l.typ, l.state,
           [l.w EXCEPT !.out = Append(@, IF l.typ # Unit THEN l.value ELSE UnitText)])

VariableCase(variable_name, state, w) ==
    LET value == get_value(w.heap, state, variable_name)
    IN IF value = <<>>
       THEN InterpSyntaxError(<<"Cannot read from ", variable_name, " before assignment.">>, w)
       ELSE Return(value[1], value[2], state, w)

\* AssignCase without the check of the prior type: every Assign rebinds.
AssignCase_Rebinding(variable, l) ==
    LET heap == set_value(l.w.heap, l.state, variable.variable_name, l.value, l.typ)
    IN Return(l.value, l.typ, Len(heap), [l.w EXCEPT !.heap = heap])

AssignCase(variable, l) ==
    LET var_val == get_value(l.w.heap, l.state, variable.variable_name)
        var_type == IF var_val # <<>> THEN var_val[2] ELSE NoneTag
    IN IF var_type # NoneTag /\ var_type # l.typ
       THEN InterpTypeError(<<"Mismatched types for Assignment: Cannot assign ",
                              l.typ, " to ", var_type>>, l.w)
       ELSE LET heap == set_value(l.w.heap, l.state, variable.variable_name, l.value, l.typ)
            IN Return(l.value, l.typ, Len(heap), [l.w EXCEPT !.heap = heap])

AddCase(l, r) ==
    IF l.typ # r.typ
    THEN InterpTypeError(<<"Cannot add ", l.typ, " to ", r.typ>>, r.w)
    ELSE IF l.typ \in {Integer, FloatingPoint, String}
    THEN Return(PyAdd(l.value, r.value), l.typ, r.state, r.w)
    ELSE InterpTypeError(<<"Cannot add ", l.typ>>, r.w)

SubtractCase(l, r) ==
    IF l.typ # r.typ
    THEN InterpTypeError(<<"Cannot subtract ", l.typ, " and ", r.typ>>, r.w)
    ELSE IF l.typ \in {Integer, FloatingPoint}
    THEN Return(PySub(l.value, r.value), l.typ, r.state, r.w)
    ELSE InterpTypeError(<<"Cannot subtract ", l.typ>>, r.w)

MultiplyCase(l, r) ==
    IF l.typ # r.typ
    THEN InterpTypeError(<<"Cannot multiply ", l.typ, " and ", r.typ>>, r.w)
    ELSE IF l.typ \in {Integer, FloatingPoint}
    THEN Return(PyMul(l.value, r.value), l.typ, r.state, r.w)
    ELSE InterpTypeError(<<"Cannot multiply ", l.typ>>, r.w)

\* DivideCase with true division (/) for Integer operands as well.
DivideCase_TrueDivision(l, r) ==
    IF l.typ # r.typ
    THEN InterpTypeError(<<"Cannot divide ", l.typ, " and ", r.typ>>, r.w)
    ELSE IF PyEq(r.value, PyInt(0)) \/ PyEq(r.value, PyFloat(0, 1))
    THEN InterpMathError(<<"Division by zero">>, r.w)
    ELSE IF l.typ \in {Integer, FloatingPoint}
    THEN Return(PyTrueDiv(l.value, r.value), l.typ, r.state, r.w)
    ELSE InterpTypeError(<<"Cannot divide ", l.typ>>, r.w)

DivideCase(l, r) ==
    IF l.typ # r.typ
    THEN InterpTypeError(<<"Cannot divide ", l.typ, " and ", r.typ>>, r.w)
    ELSE IF PyEq(r.value, PyInt(0)) \/ PyEq(r.value, PyFloat(0, 1))
    THEN InterpMathError(<<"Division by zero">>, r.w)
    ELSE IF l.typ = Integer
    THEN Return(PyFloorDiv(l.value, r.value), Integer, r.state, r.w)
    ELSE IF l.typ = FloatingPoint
    THEN Return(PyTrueDiv(l.value, r.value), FloatingPoint, r.state, r.w)
    ELSE InterpTypeError(<<"Cannot divide ", l.typ>>, r.w)

\* left_val and right_val: the left value when it is falsy, else the right.
AndCase(l, r) ==
    IF l.typ # r.typ \/ l.typ # Boolean
    THEN InterpTypeError(<<"Cannot perform And on non-boolean">>, r.w)
    ELSE Return(IF PyTruthy(l.value) THEN r.value ELSE l.value, Boolean, r.state, r.w)

\* left_val or right_val: the left value when it is truthy, else the right.
OrCase(l, r) ==
    IF l.typ # r.typ \/ l.typ # Boolean
    THEN InterpTypeError(<<"Cannot perform Or on non-boolean">>, r.w)
    ELSE Return(IF PyTruthy(l.value) THEN l.value ELSE r.value, Boolean, r.state, r.w)

NotCase(l) ==
    IF l.typ # Boolean
    THEN InterpTypeError(<<"Cannot perform Not on non-boolean">>, l.w)
    ELSE Return(PyBool(~PyTruthy(l.value)), Boolean, l.state, l.w)

\* The type check of If on its evaluated condition; the branch is evaluated
\* by evaluate itself.
IfCheck(l) ==
    IF l.typ # Boolean
    THEN InterpTypeError(<<"If condition must be Boolean">>, l.w)
    ELSE l

Comparable == {Integer, FloatingPoint, String, Boolean}

LtCase(l, r) ==
    IF l.typ # r.typ
    THEN InterpTypeError(<<"Cannot compare ", l.typ, " and ", r.typ>>, r.w)
    ELSE IF l.typ \in Comparable
    THEN Return(PyBool(PyLt(l.value, r.value)), Boolean, r.state, r.w)
    ELSE IF l.typ = Unit
    THEN Return(PyFalse, Boolean, r.state, r.w)
    ELSE InterpTypeError(<<"Cannot perform < on ", l.typ>>, r.w)

LteCase(l, r) ==
    IF l.typ # r.typ
    THEN InterpTypeError(<<"Cannot compare ", l.typ, " and ", r.typ>>, r.w)
    ELSE IF l.typ \in Comparable
    THEN Return(PyBool(~PyLt(r.value, l.value)), Boolean, r.state, r.w)
    ELSE IF l.typ = Unit
    THEN Return(PyTrue, Boolean, r.state, r.w)
    ELSE InterpTypeError(<<"Cannot perform <= on ", l.typ>>, r.w)

GtCase(l, r) ==
    IF l.typ # r.typ
    THEN InterpTypeError(<<"Cannot compare ", l.typ, " and ", r.typ>>, r.w)
    ELSE IF l.typ \in Comparable
    THEN Return(PyBool(PyLt(r.value, l.value)), Boolean, r.state, r.w)
    ELSE IF l.typ = Unit
    THEN Return(PyFalse, Boolean, r.state, r.w)
    ELSE InterpTypeError(<<"Cannot perform > on ", l.typ>>, r.w)

GteCase(l, r) ==
    IF l.typ # r.typ
    THEN InterpTypeError(<<"Cannot compare ", l.typ, " and ", r.typ>>, r.w)
    ELSE IF l.typ \in Comparable
    THEN Return(PyBool(~PyLt(l.value, r.value)), Boolean, r.state, r.w)
    ELSE IF l.typ = Unit
    THEN Return(PyTrue, Boolean, r.state, r.w)
    ELSE InterpTypeError(<<"Cannot perform >= on ", l.typ>>, r.w)

EqCase(l, r) ==
    IF l.typ # r.typ
    THEN InterpTypeError(<<"Cannot compare ", l.typ, " and ", r.typ>>, r.w)
    ELSE Return(PyBool(PyEq(l.value, r.value)), Boolean, r.state, r.w)

NeCase(l, r) ==
    IF l.typ # r.typ
    THEN InterpTypeError(<<"Cannot compare ", l.typ, " and ", r.typ>>, r.w)
    ELSE Return(PyBool(~PyEq(l.value, r.value)), Boolean, r.state, r.w)

\* The type check of While on the first evaluation of its condition.
WhileCheck(l) ==
    IF l.typ # Boolean
    THEN InterpTypeError(<<"While condition must be Boolean">>, l.w)
    ELSE l

\* The loop returning what its condition last evaluated to.
WhileReturn_Condition(c) == Return(c.value, c.typ, c.state, c.w)

\* return (False, Boolean(), current_state), c being the last evaluation of
\* the condition, whose state current_state is.
WhileReturn(c) == Return(PyFalse, Boolean, c.state, c.w)

BinaryCase(op, l, r) ==
    CASE op = "Add" -> AddCase(l, r)
      [] op = "Subtract" -> SubtractCase(l, r)
      [] op = "Multiply" -> MultiplyCase(l, r)
      [] op = "Divide" -> DivideCase(l, r)
      [] op = "And" -> AndCase(l, r)
      [] op = "Or" -> OrCase(l, r)
      [] op = "Lt" -> LtCase(l, r)
      [] op = "Lte" -> LteCase(l, r)
      [] op = "Gt" -> GtCase(l, r)
      [] op = "Gte" -> GteCase(l, r)
      [] op = "Eq" -> EqCase(l, r)
      [] op = "Ne" -> NeCase(l, r)

(***************************************************************************)
(* evaluate(expression, state): the match over the node variants.  An      *)
(* exception raised by a child ends the call with that exception.          *)
(***************************************************************************)
RECURSIVE evaluate(_, _, _)
RECURSIVE evaluate_exprs(_, _)
RECURSIVE evaluate_while(_, _, _)

\* right_val, right_type, new_state = evaluate(right, new_state), where
\* new_state is what the evaluation l of the left child returned.
\* Short-circuit evaluation: the right operand of And after a false left one,
\* and of Or after a true left one, is not evaluated.
evaluate_right_ShortCircuit(op, l, right) ==
    IF (op = "And" /\ ~PyTruthy(l.value)) \/ (op = "Or" /\ PyTruthy(l.value))
    THEN l
    ELSE evaluate(right, l.state, l.w)

evaluate_right(op, l, right) == evaluate(right, l.state, l.w)

evaluate(expression, state, w) ==
    LET op == expression.op
    IN CASE op = "Ren" -> RenCase(state, w)
         [] op \in {"IntLiteral", "FloatingPointLiteral", "StringLiteral", "BooleanLiteral"} ->
              LiteralCase(expression, state, w)
         [] op = "Print" ->
              LET l == evaluate(expression.to_print, state, w)
              IN IF Raised(l) THEN l ELSE PrintCase(l)
         [] op \in {"Sequence", "Program"} ->
              evaluate_exprs(expression.exprs, Return(PyNone, Unit, state, w))
         [] op = "Variable" -> VariableCase(expression.variable_name, state, w)
         [] op = "Assign" ->
              LET l == evaluate(expression.value, state, w)
              IN IF Raised(l) THEN l ELSE AssignCase(expression.variable, l)
         [] op \in BinaryOps ->
              LET l == evaluate(expression.left, state, w)
              IN IF Raised(l) THEN l
                 ELSE LET r == evaluate_right(op, l, expression.right)
                      IN IF Raised(r) THEN r ELSE BinaryCase(op, l, r)
         [] op = "Not" ->
              LET l == evaluate(expression.expr, state, w)
              IN IF Raised(l) THEN l ELSE NotCase(l)
         [] op = "If" ->
              LET l == evaluate(expression.condition, state, w)
              IN IF Raised(l) THEN l
                 ELSE IF Raised(IfCheck(l)) THEN IfCheck(l)
                 ELSE IF PyTruthy(l.value)
                 THEN evaluate(expression.true, l.state, l.w)
                 ELSE evaluate(expression.false, l.state, l.w)
         [] op = "While" ->
              LET l == evaluate(expression.condition, state, w)
              IN IF Raised(l) THEN l
                 ELSE IF Raised(WhileCheck(l)) THEN WhileCheck(l)
                 ELSE evaluate_while(expression.condition, expression.body, l)
         [] OTHER -> InterpSyntaxError(<<"Unhandled expression">>, w)

\* for expr in exprs: last_value, last_type, current_state = evaluate(expr,
\* current_state); last holds the three and the world.
evaluate_exprs(exprs, last) ==
    IF exprs = <<>> THEN last
    ELSE LET r == evaluate(Head(exprs), last.state, last.w)
         IN IF Raised(r) THEN r ELSE evaluate_exprs(Tail(exprs), r)

\* while cond_val: evaluate the body, then the condition again; c holds
\* cond_val, cond_type and current_state.  A loop that has no iterations
\* left is cut off.
evaluate_while(condition, body, c) ==
    IF ~PyTruthy(c.value) THEN WhileReturn(c)
    ELSE IF c.w.fuel = 0 THEN Nontermination(c.w)
    ELSE LET b == evaluate(body, c.state, [c.w EXCEPT !.fuel = @ - 1])
         IN IF Raised(b) THEN b
            ELSE LET n == evaluate(condition, b.state, b.w)
                 IN IF Raised(n) THEN n ELSE evaluate_while(condition, body, n)

(***************************************************************************)
(* The programs run.  run_stimpl(Program(exprs)) evaluates the expressions *)
(* of exprs in order from an EmptyState; the model draws them one at a     *)
(* time.  evaluate keeps nothing of a top-level expression but the State   *)
(* it returns and the lines it printed, so an expression is followed by    *)
(* another one only when it is an Assign of the statement pool; every      *)
(* other expression is the last of its program, after which run_stimpl     *)
(* returns.                                                                *)
(***************************************************************************)
Names == {"x", "i"}

IntLiterals == {IntLiteral(n) : n \in {-7, 0, 1, 2}}

FloatingPointLiterals ==
    {FloatingPointLiteral(0, 1), FloatingPointLiteral(2, 1), FloatingPointLiteral(7, 1)}

StringLiterals == {StringLiteral(<<>>), StringLiteral(<<97>>)}

BooleanLiterals == {BooleanLiteral(TRUE), BooleanLiteral(FALSE)}

Literals == IntLiterals \cup FloatingPointLiterals \cup StringLiterals \cup BooleanLiterals

Variables == {Variable(v) : v \in Names}

\* Expressions of type Unit wherever they are evaluated.
UnitExprs == {Ren, Sequence(<<>>), Program(<<>>), Print_(Ren), Print_(Sequence(<<>>))}

Atoms == Literals \cup Variables \cup {Ren, Sequence(<<>>)}

\* The right-hand sides of the Assigns that another expression may follow.
StatementValues ==
    {IntLiteral(0), IntLiteral(2), StringLiteral(<<97>>), BooleanLiteral(TRUE),
     Ren, Sequence(<<>>)}

\* The right-hand sides of an Assign that ends its program: an Assign and a
\* Sequence that bind a name before the outer Assign looks its own name up.
AssignValues ==
    Atoms \cup {Assign(Variable(v), e) : v \in Names, e \in {IntLiteral(1), StringLiteral(<<97>>)}}
          \cup {Sequence(<<Assign(Variable(v), StringLiteral(<<97>>)), IntLiteral(1)>>) : v \in Names}
          \cup {Add(Variable(v), IntLiteral(1)) : v \in Names}
          \cup {Divide(IntLiteral(1), IntLiteral(0))}

DivideOperands == Atoms

NotOperands == BooleanLiterals \cup {IntLiteral(0), Ren, Variable("x")}

ArithOperands ==
    {IntLiteral(-7), IntLiteral(2), FloatingPointLiteral(7, 1), StringLiteral(<<97>>),
     BooleanLiteral(TRUE), Ren, Variable("x")}

RelOperands ==
    {IntLiteral(-7), IntLiteral(2), FloatingPointLiteral(2, 1), StringLiteral(<<>>),
     StringLiteral(<<97>>), BooleanLiteral(TRUE), BooleanLiteral(FALSE), Ren, Variable("x")}

EqOperands == UnitExprs \cup Variables \cup {IntLiteral(2), StringLiteral(<<97>>)}

\* Right operands of And and Or with an effect of their own: a binding, a
\* printed line, an error.
EffectOperands ==
    {Assign(Variable("x"), BooleanLiteral(TRUE)), Assign(Variable("x"), IntLiteral(1)),
     Print_(BooleanLiteral(FALSE)), Divide(IntLiteral(1), IntLiteral(0)),
     Variable("x")}

LogicalLeft == BooleanLiterals \cup {IntLiteral(0), Variable("x"), Divide(IntLiteral(1), IntLiteral(0))}

LogicalRight == BooleanLiterals \cup EffectOperands

Increment(v) == Assign(Variable(v), Add(Variable(v), IntLiteral(1)))

\* A condition that is Boolean while i < 1 and of the type of c afterwards.
Changing(c) == If(Lt(Variable("i"), IntLiteral(1)), BooleanLiteral(TRUE), c)

WhileConditions ==
    {Lt(Variable("i"), IntLiteral(n)) : n \in 0..MaxN}
      \cup {Changing(c) : c \in {IntLiteral(0), IntLiteral(2), StringLiteral(<<>>), Ren}}
      \cup {Sequence(<<Assign(Variable("x"), IntLiteral(2)), Lt(Variable("i"), IntLiteral(1))>>)}
      \cup BooleanLiterals \cup {IntLiteral(0), Variable("x")}

WhileBodies == {Increment("i"), Assign(Variable("x"), StringLiteral(<<97>>)), Print_(Variable("i")), Ren}

IfConditions == BooleanLiterals \cup {IntLiteral(0), Variable("x"), Lt(Variable("i"), IntLiteral(1))}

IfBranches == {IntLiteral(1), Ren, Assign(Variable("x"), IntLiteral(2)), Variable("i")}

ExprLists ==
    {<<>>, <<IntLiteral(1), IntLiteral(2), IntLiteral(-7)>>,
     <<Assign(Variable("x"), IntLiteral(1)), Assign(Variable("x"), IntLiteral(2)), Variable("x")>>,
     <<Assign(Variable("x"), IntLiteral(1)), Assign(Variable("x"), StringLiteral(<<97>>))>>,
     <<Assign(Variable("i"), IntLiteral(0)), While(Lt(Variable("i"), IntLiteral(MaxN)), Increment("i"))>>,
     <<Variable("i"), Print_(Variable("x"))>>,
     <<Print_(IntLiteral(1)), Divide(IntLiteral(1), IntLiteral(0)), Print_(IntLiteral(2))>>}

\* A node of a variant that evaluate does not know.
Unhandled == [op |-> "Unhandled"]

VARIABLES
    heap,           \* the State objects allocated so far
    current_state,  \* the State the next expression is evaluated in
    last_value,     \* the value of the last expression evaluated
    last_type,      \* its type tag
    out,            \* the lines printed
    raised,         \* the exception that ended the run, NoError if none
    expr,           \* the expression evaluated last
    pc,             \* the number of expressions evaluated
    returned        \* run_stimpl has returned

vars == <<heap, current_state, last_value, last_type, out, raised, expr, pc, returned>>

\* No expression evaluated yet.
NoExpr == [op |-> "None"]

\* state = EmptyState(); last_value, last_type, current_state = None, Unit(), state
Init ==
    /\ heap = <<EmptyState>>
    /\ current_state = Len(heap)
    /\ last_value = PyNone
    /\ last_type = Unit
    /\ out = <<>>
    /\ raised = NoError
    /\ expr = NoExpr
    /\ pc = 0
    /\ returned = FALSE

\* What a call of evaluate starts from.
World == [heap |-> heap, out |-> out, fuel |-> MaxIter]

\* The loop goes on: no expression raised, and the last one is yet to come.
Running == ~returned /\ raised = NoError

\* One turn of the loop over the program's expressions, on expression e;
\* last tells that e is the last one.
run_stimpl(e, last) ==
    /\ \E r \in {evaluate(e, current_state, World)} :
          /\ heap' = r.w.heap
          /\ out' = r.w.out
          /\ raised' = r.raised
          /\ IF Raised(r)
             THEN UNCHANGED <<last_value, last_type, current_state>>
             ELSE /\ last_value' = r.value
                  /\ last_type' = r.typ
                  /\ current_state' = r.state
          /\ returned' = (last /\ ~Raised(r))
    /\ pc' = pc + 1

EvalRen ==
    /\ Running
    /\ expr' = Ren
    /\ run_stimpl(Ren, TRUE)

EvalLiteral ==
    /\ Running
    /\ \E e \in Literals :
           /\ expr' = e
           /\ run_stimpl(e, TRUE)

EvalPrint ==
    /\ Running
    /\ \E e \in Atoms \cup UnitExprs :
           /\ expr' = Print_(e)
           /\ run_stimpl(Print_(e), TRUE)

EvalSequence ==
    /\ Running
    /\ \E es \in ExprLists :
         \E e \in {Sequence(es), Program(es)} :
           /\ expr' = e
           /\ run_stimpl(e, TRUE)

EvalVariable ==
    /\ Running
    /\ \E v \in Names :
           /\ expr' = Variable(v)
           /\ run_stimpl(Variable(v), TRUE)

EvalAssign ==
    /\ Running
    /\ \E v \in Names, last \in BOOLEAN :
           \E e \in IF last THEN AssignValues ELSE StatementValues :
               /\ last \/ pc < MaxSteps
               /\ expr' = Assign(Variable(v), e)
               /\ run_stimpl(Assign(Variable(v), e), last)

EvalArithmetic ==
    /\ Running
    /\ \E op \in {"Add", "Subtract", "Multiply"}, l \in ArithOperands, r \in ArithOperands :
           /\ expr' = Binary(op, l, r)
           /\ run_stimpl(Binary(op, l, r), TRUE)

EvalDivide ==
    /\ Running
    /\ \E l \in DivideOperands, r \in DivideOperands :
           /\ expr' = Divide(l, r)
           /\ run_stimpl(Divide(l, r), TRUE)

EvalLogical ==
    /\ Running
    /\ \E op \in {"And", "Or"}, l \in LogicalLeft, r \in LogicalRight :
           /\ expr' = Binary(op, l, r)
           /\ run_stimpl(Binary(op, l, r), TRUE)

EvalNot ==
    /\ Running
    /\ \E e \in NotOperands :
           /\ expr' = Not(e)
           /\ run_stimpl(Not(e), TRUE)

EvalRelational ==
    /\ Running
    /\ \E op \in {"Lt", "Lte", "Gt", "Gte"}, l \in RelOperands, r \in RelOperands :
           /\ expr' = Binary(op, l, r)
           /\ run_stimpl(Binary(op, l, r), TRUE)

EvalEquality ==
    /\ Running
    /\ \E op \in {"Eq", "Ne"}, l \in EqOperands, r \in EqOperands :
           /\ expr' = Binary(op, l, r)
           /\ run_stimpl(Binary(op, l, r), TRUE)

EvalIf ==
    /\ Running
    /\ \E c \in IfConditions, t \in IfBranches, f \in IfBranches :
           /\ expr' = If(c, t, f)
           /\ run_stimpl(If(c, t, f), TRUE)

EvalWhile ==
    /\ Running
    /\ \E c \in WhileConditions, b \in WhileBodies :
           /\ expr' = While(c, b)
           /\ run_stimpl(While(c, b), TRUE)

EvalUnhandled ==
    /\ Running
    /\ expr' = Unhandled
    /\ run_stimpl(Unhandled, TRUE)

Next ==
    \/ EvalRen
    \/ EvalLiteral
    \/ EvalPrint
    \/ EvalSequence
    \/ EvalVariable
    \/ EvalAssign
    \/ EvalArithmetic
    \/ EvalDivide
    \/ EvalLogical
    \/ EvalNot
    \/ EvalRelational
    \/ EvalEquality
    \/ EvalIf
    \/ EvalWhile
    \/ EvalUnhandled

Spec == Init /\ [][Next]_vars

(***************************************************************************)
(* Notions the properties are stated with.                                 *)
(***************************************************************************)
\* The State objects reachable from state along next_state, state included.
RECURSIVE Chain(_, _)
Chain(h, state) ==
    IF state = NoneRef THEN {} ELSE {state} \cup Chain(h, h[state].next_state)

\* The frames of the chain of state that bind name.
Bindings(h, state, name) == {a \in Chain(h, state) : h[a].variable_name = name}

Max(S) == CHOOSE a \in S : \A b \in S : b <= a

\* An Assign node occurs in e.
RECURSIVE HasAssign(_)
HasAssign(e) ==
    CASE e.op = "Assign" -> TRUE
      [] e.op = "Print" -> HasAssign(e.to_print)
      [] e.op \in {"Sequence", "Program"} -> \E k \in 1..Len(e.exprs) : HasAssign(e.exprs[k])
      [] e.op \in BinaryOps -> HasAssign(e.left) \/ HasAssign(e.right)
      [] e.op = "Not" -> HasAssign(e.expr)
      [] e.op = "If" -> HasAssign(e.condition) \/ HasAssign(e.true) \/ HasAssign(e.false)
      [] e.op = "While" -> HasAssign(e.condition) \/ HasAssign(e.body)
      [] OTHER -> FALSE

\* The runtime class of value v is the one type tag typ stands for.
Agrees(v, typ) ==
    CASE typ = Integer -> v.kind = "int"
      [] typ = FloatingPoint -> v.kind = "float"
      [] typ = String -> v.kind = "str"
      [] typ = Boolean -> v.kind = "bool"
      [] typ = Unit -> v.kind \in {"tuple", "none"}
      [] OTHER -> FALSE

\* The quotient of a by b (b # 0) rounded toward zero.
TruncDiv(a, b) ==
    IF (a < 0) = (b < 0) THEN Abs(a) \div Abs(b) ELSE -(Abs(a) \div Abs(b))

\* The type tag an operand e of the pools evaluates to in the current State,
\* NoneTag when e is an unbound variable.
OperandType(e) ==
    CASE e.op = "IntLiteral" -> Integer
      [] e.op = "FloatingPointLiteral" -> FloatingPoint
      [] e.op = "StringLiteral" -> String
      [] e.op = "BooleanLiteral" -> Boolean
      [] e \in UnitExprs -> Unit
      [] e.op = "Variable" ->
           IF Bindings(heap, current_state, e.variable_name) = {} THEN NoneTag
           ELSE heap[Max(Bindings(heap, current_state, e.variable_name))].value[2]
      [] OTHER -> NoneTag

CountingLoop(n) == While(Lt(Variable("i"), IntLiteral(n)), Increment("i"))

(***************************************************************************)
(* C1.  Type stability.  In every chain of frames of the heap, the frames  *)
(* that bind the same name carry the same type tag.  An Assign whose       *)
(* right-hand side returned a value of a type other than that of the most  *)
(* recent binding of the name, looked up in the State the right-hand side  *)
(* returned, raises InterpTypeError and allocates no frame; every other    *)
(* Assign succeeds and binds the name with the type of the value.          *)
(***************************************************************************)
TypeStable ==
    \A state \in 1..Len(heap) :
        \A a, b \in Chain(heap, state) :
            heap[a].variable_name = heap[b].variable_name =>
                heap[a].value[2] = heap[b].value[2]

AssignTyped ==
    (Running /\ expr'.op = "Assign") =>
        LET name == expr'.variable.variable_name
            l == evaluate(expr'.value, current_state, World)
            prior == Bindings(l.w.heap, l.state, name)
        IN ~Raised(l) =>
             IF prior # {} /\ l.w.heap[Max(prior)].value[2] # l.typ
             THEN /\ raised'.class = "InterpTypeError"
                  /\ heap' = l.w.heap
                  /\ current_state' = current_state
             ELSE /\ raised' = NoError
                  /\ Len(heap') = Len(l.w.heap) + 1
                  /\ current_state' = Len(heap')
                  /\ heap'[current_state'].variable_name = name
                  /\ heap'[current_state'].value = <<l.value, l.typ>>
                  /\ last_type' = l.typ

\* C1: every chain is type-stable, and every Assign step checks the prior type.
C1_TypeStability == []TypeStable /\ [][AssignTyped]_vars

\* x was bound twice with Integer values, and x = "a" then raised the error.
C1_Witness ==
    /\ expr = Assign(Variable("x"), StringLiteral(<<97>>))
    /\ raised.class = "InterpTypeError"
    /\ Cardinality(Bindings(heap, current_state, "x")) = 2
    /\ \A a \in Bindings(heap, current_state, "x") : heap[a].value[2] = Integer

(***************************************************************************)
(* C9.  Variable read and shadowing.  Reading a variable returns the value *)
(* and type of the most recent frame of the current chain that binds the   *)
(* name (the frame allocated last, by the last executed Assign to it) and  *)
(* leaves State and heap as they are; it raises InterpSyntaxError with the *)
(* name in its message exactly when no frame of the chain binds the name.  *)
(***************************************************************************)
VariableRead ==
    (Running /\ expr'.op = "Variable") =>
        LET name == expr'.variable_name
            bound == Bindings(heap, current_state, name)
        IN /\ heap' = heap
           /\ current_state' = current_state
           /\ IF bound = {}
              THEN /\ raised'.class = "InterpSyntaxError"
                   /\ \E k \in 1..Len(raised'.message) : raised'.message[k] = name
                   /\ <<last_value', last_type'>> = <<last_value, last_type>>
              ELSE /\ raised' = NoError
                   /\ <<last_value', last_type'>> = heap[Max(bound)].value

\* C9: every read of a variable returns the newest binding or raises.
C9_VariableRead == [][VariableRead]_vars

\* x was bound to 0 and then to 2, and the read of x returned 2.
C9_Witness ==
    /\ expr = Variable("x")
    /\ raised = NoError
    /\ last_value = PyInt(2)
    /\ \E a, b \in Bindings(heap, current_state, "x") :
          a < b /\ heap[a].value[1] = PyInt(0) /\ heap[b].value[1] = PyInt(2)

(***************************************************************************)
(* C8.  Environment immutability and append-only extension.  An evaluation *)
(* changes no State object that existed before it, whether it returns or   *)
(* raises, so a lookup from any earlier State gives what it gave before.   *)
(* An Assign that returns has allocated, after the frames of its           *)
(* right-hand side, exactly one frame (name, value, type) whose next_state *)
(* is the State its right-hand side returned; an expression without an     *)
(* Assign node allocates nothing.                                          *)
(***************************************************************************)
FramesKept ==
    /\ Len(heap') >= Len(heap)
    /\ \A a \in 1..Len(heap) : heap'[a] = heap[a]
    /\ \A a \in 1..Len(heap), name \in Names :
          get_value(heap', a, name) = get_value(heap, a, name)

AssignExtends ==
    (Running /\ expr'.op = "Assign" /\ raised' = NoError) =>
        LET l == evaluate(expr'.value, current_state, World)
        IN /\ heap' = Append(l.w.heap,
                             StateObject("State", expr'.variable.variable_name,
                                         l.value, l.typ, l.state))
           /\ current_state' = Len(heap')

OnlyAssignExtends == (Running /\ ~HasAssign(expr')) => (heap' = heap /\ current_state' = current_state)

\* C8: every step keeps the existing frames; only Assign appends one.
C8_AppendOnly == [][FramesKept /\ AssignExtends /\ OnlyAssignExtends]_vars

\* x = 2 was evaluated in a State where x was 0: the new frame is the current
\* State and the State before it still gives 0 for x.
C8_Witness ==
    /\ expr = Assign(Variable("x"), IntLiteral(2))
    /\ raised = NoError
    /\ heap[current_state].value = <<PyInt(2), Integer>>
    /\ heap[current_state].next_state = current_state - 1
    /\ get_value(heap, current_state - 1, "x") = <<PyInt(0), Integer>>

(***************************************************************************)
(* C10.  Type-tag soundness.  The value of every expression that returned  *)
(* is of the runtime class its type tag stands for, and so is the value of *)
(* every frame of the heap; the logical, relational and equality operators *)
(* and While return a bool tagged Boolean.                                 *)
(***************************************************************************)
BooleanOps == {"And", "Or", "Not", "Lt", "Lte", "Gt", "Gte", "Eq", "Ne", "While"}

\* C10: values are of the runtime class of their type tag.
C10_TagSoundness ==
    /\ raised = NoError => Agrees(last_value, last_type)
    /\ \A a \in 1..Len(heap) :
          heap[a].cls = "State" => Agrees(heap[a].value[1], heap[a].value[2])
    /\ (raised = NoError /\ expr.op \in BooleanOps) =>
          (last_value.kind = "bool" /\ last_type = Boolean)

\* x, bound to the Integer 0, was compared with 2: a bool tagged Boolean.
C10_Witness ==
    /\ expr = Lt(Variable("x"), IntLiteral(2))
    /\ raised = NoError
    /\ <<last_value, last_type>> = <<PyTrue, Boolean>>
    /\ get_value(heap, current_state, "x") = <<PyInt(0), Integer>>

(***************************************************************************)
(* C7.  Loop termination and result.  For every N in 0..MaxN, the loop     *)
(* while (i < N) { i = i + 1 } evaluated where i is 0 returns, its body    *)
(* has run exactly N times (one frame per run), its value is (False,       *)
(* Boolean) and i is N in the State it returns.  Every While that returns  *)
(* returns (False, Boolean), in the State its condition returned last.     *)
(***************************************************************************)
CountingLoopResult ==
    \A n \in 0..MaxN :
        (/\ Running
         /\ expr' = CountingLoop(n)
         /\ get_value(heap, current_state, "i") = <<PyInt(0), Integer>>) =>
            /\ raised' = NoError
            /\ <<last_value', last_type'>> = <<PyFalse, Boolean>>
            /\ Len(heap') = Len(heap) + n
            /\ get_value(heap', current_state', "i") = <<PyInt(n), Integer>>

\* A condition that binds x to 2 before it compares.
BindingCondition == Sequence(<<Assign(Variable("x"), IntLiteral(2)), Lt(Variable("i"), IntLiteral(1))>>)

WhileResult ==
    (Running /\ expr'.op = "While" /\ raised' = NoError) =>
        /\ <<last_value', last_type'>> = <<PyFalse, Boolean>>
        /\ expr'.condition = BindingCondition =>
              /\ heap'[current_state'].variable_name = "x"
              /\ heap'[current_state'].value = <<PyInt(2), Integer>>
        /\ ~HasAssign(expr'.condition) =>
              current_state' = IF HasAssign(expr'.body) /\ Len(heap') > Len(heap)
                               THEN Len(heap') ELSE current_state

\* C7: the counting loops return after N runs, and While returns (False, Boolean).
C7_LoopResult == [][CountingLoopResult /\ WhileResult]_vars

\* The loop to MaxN returned in a State where i was 0: the chain holds the
\* frames i = MaxN down to i = 0.
C7_Witness ==
    /\ expr = CountingLoop(MaxN)
    /\ raised = NoError
    /\ <<last_value, last_type>> = <<PyFalse, Boolean>>
    /\ Cardinality(Bindings(heap, current_state, "i")) = MaxN + 1
    /\ current_state > MaxN
    /\ heap[current_state].value = <<PyInt(MaxN), Integer>>
    /\ heap[current_state - MaxN].value = <<PyInt(0), Integer>>

(***************************************************************************)
(* C6.  No short-circuit, left to right.  And and Or evaluate the left     *)
(* operand and then, whatever its value, the right operand in the State    *)
(* and world the left one returned: the frames, the printed lines and the  *)
(* exception of the right operand are those of the whole expression.       *)
(* And(false, 1 / 0) raises InterpMathError, and Or(true, x = true)        *)
(* returns a State that binds x, unless x is bound to another type.        *)
(***************************************************************************)
BothOperands ==
    (Running /\ expr'.op \in {"And", "Or"}) =>
        LET l == evaluate(expr'.left, current_state, World)
            r == evaluate(expr'.right, l.state, l.w)
        IN ~Raised(l) =>
             /\ heap' = r.w.heap
             /\ out' = r.w.out
             /\ Raised(r) => raised' = r.raised
             /\ raised' = NoError => current_state' = r.state

BindingOr(e) == Or(BooleanLiteral(TRUE), Assign(Variable("x"), e))

NoShortCircuit ==
    /\ (Running /\ expr' = And(BooleanLiteral(FALSE), Divide(IntLiteral(1), IntLiteral(0)))) =>
          raised'.class = "InterpMathError"
    /\ (Running /\ expr' = BindingOr(BooleanLiteral(TRUE))
          /\ OperandType(Variable("x")) \in {NoneTag, Boolean}) =>
          /\ raised' = NoError
          /\ <<last_value', last_type'>> = <<PyTrue, Boolean>>
          /\ Len(heap') = Len(heap) + 1
          /\ get_value(heap', current_state', "x") = <<PyTrue, Boolean>>
    /\ (Running /\ expr' = BindingOr(IntLiteral(1))
          /\ OperandType(Variable("x")) \in {NoneTag, Integer}) =>
          /\ raised'.class = "InterpTypeError"
          /\ Len(heap') = Len(heap) + 1
    /\ \A b \in BOOLEAN :
          (Running /\ expr' = And(BooleanLiteral(b), Print_(BooleanLiteral(FALSE)))) =>
              out' = Append(out, PyFalse)

C2_ConditionCheckedEachTime ==
    \A c \in {IntLiteral(0), IntLiteral(2), StringLiteral(<<>>), Ren} :
        (/\ expr = While(Changing(c), Increment("i"))
         /\ OperandType(Variable("i")) = Integer) =>
            raised.class = "InterpTypeError"

(***************************************************************************)
(* C3 as stated.  Divide on two Integer literals a and b, b not 0, returns *)
(* the Integer quotient rounded toward zero.                               *)
(***************************************************************************)
\* C3: Integer Divide rounds toward zero.
C3_DivideTruncates ==
    (/\ expr.op = "Divide"
     /\ expr.left.op = "IntLiteral"
     /\ expr.right.op = "IntLiteral"
     /\ expr.right.literal.n # 0) =>
        /\ raised = NoError
        /\ last_type = Integer
        /\ last_value = PyInt(TruncDiv(expr.left.literal.n, expr.right.literal.n))

(***************************************************************************)
(* C4 as stated.  Divide raises InterpMathError only when both operands    *)
(* are Integer or both FloatingPoint and the divisor is zero; when the     *)
(* operand types differ or are not Integer or FloatingPoint, it raises     *)
(* InterpTypeError whatever the values are.                                *)
(***************************************************************************)
\* C4: the zero check of Divide comes after the whole type check.
C4_TypeCheckBeforeZeroCheck ==
    (/\ expr.op = "Divide"
     /\ OperandType(expr.left) # NoneTag
     /\ OperandType(expr.right) # NoneTag) =>
        /\ (\/ OperandType(expr.left) # OperandType(expr.right)
            \/ OperandType(expr.left) \notin {Integer, FloatingPoint}) =>
              raised.class = "InterpTypeError"
        /\ raised.class = "InterpMathError" =>
              /\ OperandType(expr.left) = OperandType(expr.right)
              /\ OperandType(expr.left) \in {Integer, FloatingPoint}

(***************************************************************************)
(* C5 as stated.  Eq on two operands of type Unit returns (True, Boolean)  *)
(* and Ne returns (False, Boolean).                                        *)
(***************************************************************************)
\* C5: Unit values are equal under Eq and Ne.
C5_UnitValuesEqual ==
    (/\ expr.op \in {"Eq", "Ne"}
     /\ OperandType(expr.left) = Unit
     /\ OperandType(expr.right) = Unit) =>
        /\ raised = NoError
        /\ last_type = Boolean
        /\ last_value = PyBool(expr.op = "Eq")

====
